---- MODULE Spec2Model ----
(***************************************************************************)
(* The guessing-game engine LoveLiveGame (src/game.py) and the web         *)
(* front-end handlers that drive it (src/app.py).                          *)
(*                                                                         *)
(* Ids are strings.  A live's song_ids / artist_ids lists are only ever    *)
(* read with "in" or poured into a set, so they are sets here.  A song's   *)
(* artist_ids list and the catalogue's artist_ids list are indexed ([0]),  *)
(* so they are sequences.  Display names are not modelled: the handlers    *)
(* receive the id that name resolution produced, or None.                  *)
(***************************************************************************)
EXTENDS Integers, Sequences, FiniteSets, TLC

\* Python's None
None == "None"

\* ------------------------------------------------------------------------
\* Bounds of the model
\* ------------------------------------------------------------------------

\* longest history the model lets a session record
MaxHistory == 2

\* ------------------------------------------------------------------------
\* Catalogues (the datasets loaded by LoveLiveGame.__init__)
\* ------------------------------------------------------------------------

LiveRec(s, a) == [song_ids |-> s, artist_ids |-> a]
SongRec(a) == [artist_ids |-> a]

\* the three-live scenario catalogue of the specification
ScenarioData ==
    [ songs   |-> [s \in {"A", "B", "C"} |->
                     CASE s = "A" -> SongRec(<<"X">>)
                       [] s = "B" -> SongRec(<<"X", "Y">>)
                       [] OTHER   -> SongRec(<<"Y">>)],
      artists |-> <<"X", "Y">>,
      lives   |-> [l \in {"L1", "L2", "L3"} |->
                     CASE l = "L1" -> LiveRec({"A", "B"}, {"X"})
                       [] l = "L2" -> LiveRec({"B", "C"}, {"Y"})
                       [] OTHER   -> LiveRec({"C"}, {"X", "Y"})] ]

\* a catalogue of odd records: two lives with the same setlist and different
\* rosters, a live without artists, a song whose credit list is empty, and a
\* live that lists a song (C) missing from the songs map, as preprocess.py
\* produces when a setlist names a song that song-info lacks
OddData ==
    [ songs   |-> [s \in {"A", "B"} |->
                     CASE s = "A" -> SongRec(<<"Y", "X">>)
                       [] OTHER   -> SongRec(<< >>)],
      artists |-> <<"Y", "X">>,
      lives   |-> [l \in {"L1", "L2", "L3"} |->
                     CASE l = "L1" -> LiveRec({"A", "B"}, {"X"})
                       [] l = "L2" -> LiveRec({"A", "B"}, {"Y"})
                       [] OTHER   -> LiveRec({"A", "C"}, {})] ]

Catalogues == {ScenarioData, OddData}

\* what a caller may pass: the song ids of the catalogues and one unknown
\* id (Z), the artist ids, one of the live ids, the feedback codes and the
\* invalid sentinel, and list lengths below, at and above the song count
SongArgs == {"A", "B", "C", "Z"}
ArtistArgs == {"X", "Y"}
LiveArgs == {"L1"}
FeedbackArgs == {-1, 0, 1, 2}
TopKArgs == {1, 2, 5}

VARIABLES
    data,               \* self.data: the loaded catalogue
    target_live_id,     \* self.target_live_id (None before start_game)
    target_live,        \* self.target_live    (None before start_game)
    possible_live_ids,  \* self.possible_live_ids
    guessed_song_ids,   \* self.guessed_song_ids
    guessed_live_ids,   \* self.guessed_live_ids
    history,            \* self.history: sequence of <<song, artist, feedback>>
    ret,                \* the last call: its name, the exception it raised and
                        \* what it returned (not kept for the read-only queries,
                        \* whose value is a function of the unchanged state)
    usage,              \* how the caller has pruned so far (see Usage)
    play,               \* the locals of the play loop that drives the engine
                        \* (see NoPlay), idle while callers call at will
    files               \* the files on disk: the raw data that preprocess.py
                        \* reads and game_data.json, each << >> while absent

vars == <<data, target_live_id, target_live, possible_live_ids, guessed_song_ids,
          guessed_live_ids, history, ret, usage, play, files>>

session == <<target_live_id, target_live, possible_live_ids, guessed_song_ids,
             guessed_live_ids, history>>

lives == data.lives
songs == data.songs
live_ids == DOMAIN data.lives
song_ids == DOMAIN data.songs
artist_ids == data.artists

Range(s) == {s[i] : i \in DOMAIN s}

\* every order in which Python may iterate over the set S (list(S), for x in S)
Perms(S) == {p \in [1..Cardinality(S) -> S] : \A i, j \in DOMAIN p : i # j => p[i] # p[j]}

\* the LoveLiveGame object whose fields are the state variables
Game ==
    [ target_live_id    |-> target_live_id,
      target_live       |-> target_live,
      possible_live_ids |-> possible_live_ids,
      guessed_song_ids  |-> guessed_song_ids,
      guessed_live_ids  |-> guessed_live_ids,
      history           |-> history ]

\* the object right after LoveLiveGame.__init__
NewGame ==
    [ target_live_id    |-> None,
      target_live       |-> None,
      possible_live_ids |-> live_ids,
      guessed_song_ids  |-> {},
      guessed_live_ids  |-> {},
      history           |-> << >> ]

\* what a call hands back: the object afterwards, the exception raised (or
\* None) and the returned value (None when it raised)
Outcome(g, exc, val) == [game |-> g, exc |-> exc, val |-> val]

\* ------------------------------------------------------------------------
\* LoveLiveGame (src/game.py)
\* ------------------------------------------------------------------------

\* a start_game that forgets to reset the guessed lives and the history
start_game_keeps_guesses(g, target_id) ==
    { Outcome([ target_live_id    |-> t,
                target_live       |-> lives[t],
                possible_live_ids |-> live_ids,
                guessed_song_ids  |-> {},
                guessed_live_ids  |-> g.guessed_live_ids,
                history           |-> g.history ], None, t)
      : t \in IF target_id # None /\ target_id \in live_ids
              THEN {target_id} ELSE live_ids }

\* a start_game that takes every truthy target_id at its word
start_game_takes_any_id(g, target_id) ==
    { Outcome([ target_live_id    |-> t,
                target_live       |-> IF t \in live_ids THEN lives[t] ELSE None,
                possible_live_ids |-> live_ids,
                guessed_song_ids  |-> {},
                guessed_live_ids  |-> {},
                history           |-> << >> ], None, t)
      : t \in IF target_id # None THEN {target_id} ELSE live_ids }

\* start_game: the target is target_id when it is truthy and a key of lives,
\* otherwise random.choice(live_ids); every mutable field is reset
start_game(g, target_id) ==
    { Outcome([ target_live_id    |-> t,
                target_live       |-> lives[t],
                possible_live_ids |-> live_ids,
                guessed_song_ids  |-> {},
                guessed_live_ids  |-> {},
                history           |-> << >> ], None, t)
      : t \in IF target_id # None /\ target_id \in live_ids
              THEN {target_id} ELSE live_ids }

\* a feedback that looks the artist up in the guessed song's own credits
Feedback_song_credits(song_id, artist_id, live) ==
    IF song_id \in live.song_ids
    THEN IF song_id \in song_ids /\ artist_id \in Range(songs[song_id].artist_ids)
         THEN 2 ELSE 1
    ELSE 0

\* a feedback that looks at the artist before the song
Feedback_artist_first(song_id, artist_id, live) ==
    IF artist_id \in live.artist_ids THEN 2
    ELSE IF song_id \in live.song_ids THEN 1
    ELSE 0

\* the feedback code guess_song computes against a live record
Feedback(song_id, artist_id, live) ==
    IF song_id \in live.song_ids
    THEN IF artist_id \in live.artist_ids THEN 2 ELSE 1
    ELSE 0

\* a guess_song that records a song only the first time it is guessed
guess_song_skips_repeat(g, song_id, artist_id) ==
    IF song_id \notin song_ids
    THEN Outcome(g, None, -1)
    ELSE LET g1 == [g EXCEPT !.guessed_song_ids = @ \cup {song_id}]
         IN  IF g.target_live_id = None
             THEN Outcome(g1, "TypeError", None)
             ELSE LET feedback == Feedback(song_id, artist_id, g.target_live)
                  IN  IF song_id \in g.guessed_song_ids
                      THEN Outcome(g1, None, feedback)
                      ELSE Outcome([g1 EXCEPT !.history =
                                       Append(@, <<song_id, artist_id, feedback>>)],
                                   None, feedback)

\* a guess_song that keeps the latest entry as the whole history
guess_song_keeps_last(g, song_id, artist_id) ==
    IF song_id \notin song_ids
    THEN Outcome(g, None, -1)
    ELSE LET g1 == [g EXCEPT !.guessed_song_ids = @ \cup {song_id}]
         IN  IF g.target_live_id = None
             THEN Outcome(g1, "TypeError", None)
             ELSE LET feedback == Feedback(song_id, artist_id, g.target_live)
                  IN  Outcome([g1 EXCEPT !.history = <<<<song_id, artist_id, feedback>>>>],
                              None, feedback)

\* a guess_song that prunes the candidates with its feedback by itself
guess_song_prunes(g, song_id, artist_id) ==
    IF song_id \notin song_ids
    THEN Outcome(g, None, -1)
    ELSE LET g1 == [g EXCEPT !.guessed_song_ids = @ \cup {song_id}]
         IN  IF g.target_live_id = None
             THEN Outcome(g1, "TypeError", None)
             ELSE LET feedback == Feedback(song_id, artist_id, g.target_live)
                  IN  Outcome([g1 EXCEPT
                                 !.history = Append(@, <<song_id, artist_id, feedback>>),
                                 !.possible_live_ids =
                                    {lid \in @ : Feedback(song_id, artist_id, lives[lid])
                                                   = feedback}],
                              None, feedback)

\* a guess_song that records the song before it checks that the song exists
guess_song_records_first(g, song_id, artist_id) ==
    LET g1 == [g EXCEPT !.guessed_song_ids = @ \cup {song_id}]
    IN  IF song_id \notin song_ids
        THEN Outcome(g1, None, -1)
        ELSE IF g.target_live_id = None
        THEN Outcome(g1, "TypeError", None)
        ELSE LET feedback == Feedback(song_id, artist_id, g.target_live)
             IN  Outcome([g1 EXCEPT !.history =
                              Append(@, <<song_id, artist_id, feedback>>)],
                         None, feedback)

\* a guess_song that puts the new entry at the front of history
guess_song_inserts_first(g, song_id, artist_id) ==
    IF song_id \notin song_ids
    THEN Outcome(g, None, -1)
    ELSE LET g1 == [g EXCEPT !.guessed_song_ids = @ \cup {song_id}]
         IN  IF g.target_live_id = None
             THEN Outcome(g1, "TypeError", None)
             ELSE LET feedback == Feedback(song_id, artist_id, g.target_live)
                  IN  Outcome([g1 EXCEPT !.history =
                                   <<<<song_id, artist_id, feedback>>>> \o @],
                              None, feedback)

\* guess_song: -1 and no change for a song outside the catalogue; on an
\* object that was never started the subscript of target_live raises after
\* the song was added to guessed_song_ids
guess_song(g, song_id, artist_id) ==
    IF song_id \notin song_ids
    THEN Outcome(g, None, -1)
    ELSE LET g1 == [g EXCEPT !.guessed_song_ids = @ \cup {song_id}]
         IN  IF g.target_live_id = None
             THEN Outcome(g1, "TypeError", None)
             ELSE LET feedback == Feedback(song_id, artist_id, g.target_live)
                  IN  Outcome([g1 EXCEPT !.history =
                                   Append(@, <<song_id, artist_id, feedback>>)],
                              None, feedback)

\* a guess_song_only that records nothing in the history for a miss
guess_song_only_forgets_miss(g, song_id) ==
    IF song_id \notin song_ids
    THEN {Outcome(g, None, <<FALSE, << >> >>)}
    ELSE LET g1 == [g EXCEPT !.guessed_song_ids = @ \cup {song_id}]
         IN  IF g.target_live_id = None
             THEN {Outcome(g1, "TypeError", None)}
             ELSE IF song_id \in g.target_live.song_ids
             THEN LET live_artists == g.target_live.artist_ids
                      song_artists == Range(songs[song_id].artist_ids)
                      both == live_artists \cap song_artists
                      lists == IF both # {} THEN Perms(both) ELSE Perms(song_artists)
                  IN  { LET aid == IF matched # << >> THEN matched[1] ELSE artist_ids[1]
                        IN  Outcome([g1 EXCEPT !.history = Append(@, <<song_id, aid, 2>>)],
                                    None, <<TRUE, matched>>)
                        : matched \in lists }
             ELSE {Outcome(g1, None, <<FALSE, << >> >>)}

\* a guess_song_only that reveals the song's credits without looking at the
\* artists of the live
guess_song_only_reveals_credits(g, song_id) ==
    IF song_id \notin song_ids
    THEN {Outcome(g, None, <<FALSE, << >> >>)}
    ELSE LET g1 == [g EXCEPT !.guessed_song_ids = @ \cup {song_id}]
         IN  IF g.target_live_id = None
             THEN {Outcome(g1, "TypeError", None)}
             ELSE IF song_id \in g.target_live.song_ids
             THEN { LET aid == IF matched # << >> THEN matched[1] ELSE artist_ids[1]
                    IN  Outcome([g1 EXCEPT !.history = Append(@, <<song_id, aid, 2>>)],
                                None, <<TRUE, matched>>)
                    : matched \in Perms(Range(songs[song_id].artist_ids)) }
             ELSE {Outcome([g1 EXCEPT !.history = Append(@, <<song_id, artist_ids[1], 0>>)],
                           None, <<FALSE, << >> >>)}

\* guess_song_only: the set of outcomes, one per iteration order of the
\* artist sets that list(...) may produce
guess_song_only(g, song_id) ==
    IF song_id \notin song_ids
    THEN {Outcome(g, None, <<FALSE, << >> >>)}
    ELSE LET g1 == [g EXCEPT !.guessed_song_ids = @ \cup {song_id}]
         IN  IF g.target_live_id = None
             THEN {Outcome(g1, "TypeError", None)}
             ELSE IF song_id \in g.target_live.song_ids
             THEN LET live_artists == g.target_live.artist_ids
                      song_artists == Range(songs[song_id].artist_ids)
                      both == live_artists \cap song_artists
                      lists == IF both # {} THEN Perms(both) ELSE Perms(song_artists)
                  IN  { LET aid == IF matched # << >> THEN matched[1] ELSE artist_ids[1]
                        IN  Outcome([g1 EXCEPT !.history = Append(@, <<song_id, aid, 2>>)],
                                    None, <<TRUE, matched>>)
                        : matched \in lists }
             ELSE {Outcome([g1 EXCEPT !.history = Append(@, <<song_id, artist_ids[1], 0>>)],
                           None, <<FALSE, << >> >>)}

\* a to_remove that takes feedback 0 for "the song was played"
to_remove_miss_inverted(g, song_id, artist_id, feedback) ==
    { lid \in g.possible_live_ids :
        LET live == lives[lid]
            has_song == song_id \in live.song_ids
            has_artist == artist_id \in live.artist_ids
        IN  \/ feedback = 0 /\ ~has_song
            \/ feedback = 1 /\ (~has_song \/ has_artist)
            \/ feedback = 2 /\ (~has_song \/ ~has_artist) }

\* a to_remove that tests the artist alone for the feedbacks 1 and 2
to_remove_artist_alone(g, song_id, artist_id, feedback) ==
    { lid \in g.possible_live_ids :
        LET live == lives[lid]
            has_song == song_id \in live.song_ids
            has_artist == artist_id \in live.artist_ids
        IN  \/ feedback = 0 /\ has_song
            \/ feedback = 1 /\ has_artist
            \/ feedback = 2 /\ ~has_artist }

\* a to_remove whose first branch is an else: every feedback other than 1
\* and 2 is taken for a miss
to_remove_else_miss(g, song_id, artist_id, feedback) ==
    { lid \in g.possible_live_ids :
        LET live == lives[lid]
            has_song == song_id \in live.song_ids
            has_artist == artist_id \in live.artist_ids
        IN  \/ feedback \notin {1, 2} /\ has_song
            \/ feedback = 1 /\ (~has_song \/ has_artist)
            \/ feedback = 2 /\ (~has_song \/ ~has_artist) }

\* the lives prune_candidates collects in to_remove
to_remove(g, song_id, artist_id, feedback) ==
    { lid \in g.possible_live_ids :
        LET live == lives[lid]
            has_song == song_id \in live.song_ids
            has_artist == artist_id \in live.artist_ids
        IN  \/ feedback = 0 /\ has_song
            \/ feedback = 1 /\ (~has_song \/ has_artist)
            \/ feedback = 2 /\ (~has_song \/ ~has_artist) }

\* a prune_candidates that removes one live per call
prune_candidates_one_at_a_time(g, song_id, artist_id, feedback) ==
    LET removed == to_remove(g, song_id, artist_id, feedback)
        g1 == IF removed = {} THEN g
              ELSE [g EXCEPT !.possible_live_ids = @ \ {CHOOSE lid \in removed : TRUE}]
    IN  Outcome(g1, None, Cardinality(g1.possible_live_ids))

\* a prune_candidates that returns how many lives it removed
prune_candidates_counts_removed(g, song_id, artist_id, feedback) ==
    LET removed == to_remove(g, song_id, artist_id, feedback)
        g1 == [g EXCEPT !.possible_live_ids = @ \ removed]
    IN  Outcome(g1, None, Cardinality(removed))

\* a prune_candidates that filters the whole catalogue again
prune_candidates_of_catalogue(g, song_id, artist_id, feedback) ==
    LET all == [g EXCEPT !.possible_live_ids = live_ids]
        g1 == [g EXCEPT !.possible_live_ids =
                   live_ids \ to_remove(all, song_id, artist_id, feedback)]
    IN  Outcome(g1, None, Cardinality(g1.possible_live_ids))

\* prune_candidates
prune_candidates(g, song_id, artist_id, feedback) ==
    LET g1 == [g EXCEPT !.possible_live_ids =
                   @ \ to_remove(g, song_id, artist_id, feedback)]
    IN  Outcome(g1, None, Cardinality(g1.possible_live_ids))

\* a guess_live that gives up the target once it was guessed
guess_live_clears_target(g, live_id) ==
    LET g1 == [g EXCEPT !.guessed_live_ids = @ \cup {live_id}]
    IN  IF live_id = g.target_live_id
        THEN Outcome([g1 EXCEPT !.target_live_id = None, !.target_live = None],
                     None, TRUE)
        ELSE Outcome(g1, None, FALSE)

\* a guess_live that drops a wrongly guessed live from the candidates itself
guess_live_drops_wrong(g, live_id) ==
    LET g1 == [g EXCEPT !.guessed_live_ids = @ \cup {live_id}]
    IN  IF live_id = g.target_live_id
        THEN Outcome(g1, None, TRUE)
        ELSE Outcome([g1 EXCEPT !.possible_live_ids = @ \ {live_id}], None, FALSE)

\* guess_live
guess_live(g, live_id) ==
    Outcome([g EXCEPT !.guessed_live_ids = @ \cup {live_id}], None,
            live_id = g.target_live_id)

\* --- math.log2 on the quotients calculate_entropy forms, in fixed point ---

\* fraction bits of a logarithm or an entropy: scores are in units of 2^-10
FracBits == 10
\* fraction bits of the mantissa that is squared to extract them
MantBits == 12

\* the entropy 1.0
One == 2 ^ FracBits

\* the mantissa 1.0
MantOne == 2 ^ MantBits

RECURSIVE IntLog2(_, _)
\* the largest e with b * 2^e <= a, for a >= b > 0
IntLog2(a, b) == IF 2 * b <= a THEN 1 + IntLog2(a, 2 * b) ELSE 0

RECURSIVE FracLog2(_, _, _)
\* the first i fraction bits of log2 of the mantissa m in [1, 2)
FracLog2(m, i, acc) ==
    IF i = 0 THEN acc
    ELSE LET sq == (m * m) \div MantOne
         IN  IF sq >= 2 * MantOne
             THEN FracLog2(sq \div 2, i - 1, 2 * acc + 1)
             ELSE FracLog2(sq, i - 1, 2 * acc)

\* -log2(k / n) = log2(n / k) for 0 < k <= n
NegLog2(k, n) ==
    LET e == IntLog2(n, k)
        m == (n * MantOne) \div (k * 2 ^ e)
    IN  e * One + FracLog2(m, FracBits, 0)

\* the term  - p * math.log2(p)  for p = k / n, added only when p > 0
EntropyTerm(k, n) == IF k > 0 THEN (k * NegLog2(k, n)) \div n ELSE 0

\* a calculate_entropy that leaves out the term of the "no" outcome
calculate_entropy_of_yes_alone(g, song_id) ==
    LET candidate_count == Cardinality(g.possible_live_ids)
        yes_count == Cardinality({lid \in g.possible_live_ids :
                                     song_id \in lives[lid].song_ids})
    IN  IF candidate_count <= 1 THEN 0
        ELSE EntropyTerm(yes_count, candidate_count)

\* a calculate_entropy that counts the song over every live of the catalogue
calculate_entropy_over_catalogue(g, song_id) ==
    LET candidate_count == Cardinality(g.possible_live_ids)
        yes_count == Cardinality({lid \in live_ids : song_id \in lives[lid].song_ids})
        no_count == candidate_count - yes_count
    IN  IF candidate_count <= 1 THEN 0
        ELSE EntropyTerm(yes_count, candidate_count)
             + EntropyTerm(no_count, candidate_count)

\* calculate_entropy
calculate_entropy(g, song_id) ==
    LET candidate_count == Cardinality(g.possible_live_ids)
        yes_count == Cardinality({lid \in g.possible_live_ids :
                                     song_id \in lives[lid].song_ids})
        no_count == candidate_count - yes_count
    IN  IF candidate_count <= 1 THEN 0
        ELSE EntropyTerm(yes_count, candidate_count)
             + EntropyTerm(no_count, candidate_count)

RECURSIVE SortInsert(_, _)
\* x placed behind every entry of the descending list s that scores >= x
SortInsert(s, x) ==
    IF s = << >> THEN <<x>>
    ELSE IF s[1][2] >= x[2] THEN <<s[1]>> \o SortInsert(Tail(s), x)
    ELSE <<x>> \o s

RECURSIVE SortByScoreAscending(_)
\* a sort that lost reverse=True
SortByScoreAscending(s) ==
    IF s = << >> THEN << >>
    ELSE LET rest == SortByScoreAscending(SubSeq(s, 1, Len(s) - 1))
             x == s[Len(s)]
             below == {i \in DOMAIN rest : rest[i][2] <= x[2]}
             n == Cardinality(below)
         IN  SubSeq(rest, 1, n) \o <<x>> \o SubSeq(rest, n + 1, Len(rest))

RECURSIVE SortByScoreDescending(_)
\* scores.sort(key=lambda x: x[1], reverse=True): stable, highest score first
SortByScoreDescending(s) ==
    IF s = << >> THEN << >>
    ELSE SortInsert(SortByScoreDescending(SubSeq(s, 1, Len(s) - 1)), s[Len(s)])

\* scores[:top_k] for top_k >= 0
Slice(s, top_k) == SubSeq(s, 1, IF top_k < Len(s) THEN top_k ELSE Len(s))

\* a relevant-song set taken from every live of the catalogue
relevant_songs_of_all_lives(g) == UNION {lives[lid].song_ids : lid \in live_ids}

\* the songs get_best_moves scores
relevant_songs(g) == UNION {lives[lid].song_ids : lid \in g.possible_live_ids}

\* get_best_moves: the lists it may return, one per iteration order of the
\* relevant-song set
get_best_moves(g, top_k) ==
    LET score == [sid \in relevant_songs(g) \ g.guessed_song_ids |->
                     calculate_entropy(g, sid)]
    IN  { LET scores == [i \in DOMAIN order |-> <<order[i], score[order[i]]>>]
          IN  Slice(SortByScoreDescending(scores), top_k)
          : order \in Perms(DOMAIN score) }

\* ------------------------------------------------------------------------
\* The web front-end (src/app.py).  The value held in gr.State between two
\* handler calls is << >> (nothing yet) or <<snapshot>>.
\* ------------------------------------------------------------------------

\* serialize_game: the snapshots it may build, one per order list(set) takes
serialize_game(g) ==
    { [ target_live_id    |-> g.target_live_id,
        possible_live_ids |-> p,
        guessed_song_ids  |-> s,
        guessed_live_ids  |-> l,
        history           |-> g.history ]
      : p \in Perms(g.possible_live_ids),
        s \in Perms(g.guessed_song_ids),
        l \in Perms(g.guessed_live_ids) }

\* a deserialize_game that fills guessed_live_ids from the guessed songs
deserialize_game_mixed_fields(state) ==
    IF state = << >>
    THEN start_game(NewGame, None)
    ELSE LET snap == state[1]
         IN  IF snap.target_live_id \notin live_ids
             THEN {Outcome(NewGame, "KeyError", None)}
             ELSE {Outcome([ target_live_id    |-> snap.target_live_id,
                             target_live       |-> lives[snap.target_live_id],
                             possible_live_ids |-> Range(snap.possible_live_ids),
                             guessed_song_ids  |-> Range(snap.guessed_song_ids),
                             guessed_live_ids  |-> Range(snap.guessed_song_ids),
                             history           |-> snap.history ], None, None)}

\* deserialize_game: a fresh object that is started at random when there is
\* no state, and otherwise filled from the snapshot; the lookup of the
\* snapshot's target in lives raises for a target that is no live
deserialize_game(state) ==
    IF state = << >>
    THEN start_game(NewGame, None)
    ELSE LET snap == state[1]
         IN  IF snap.target_live_id \notin live_ids
             THEN {Outcome(NewGame, "KeyError", None)}
             ELSE {Outcome([ target_live_id    |-> snap.target_live_id,
                             target_live       |-> lives[snap.target_live_id],
                             possible_live_ids |-> Range(snap.possible_live_ids),
                             guessed_song_ids  |-> Range(snap.guessed_song_ids),
                             guessed_live_ids  |-> Range(snap.guessed_live_ids),
                             history           |-> snap.history ], None, None)}

\* what a handler returns as the new gr.State value: the state it was given
\* (kept) or serialize_game(game); and the status message
Reply(kept, game, msg) == [kept |-> kept, game |-> game, msg |-> msg]

\* init_game
init_game == {Reply(FALSE, o.game, "Game Started!") : o \in start_game(NewGame, None)}

\* a guess_song handler that scores the guess and leaves the candidates alone
app_guess_song_without_prune(state, sid, aid) ==
    { LET game == d.game
      IN  IF sid = None THEN Reply(TRUE, game, "Song not found.")
          ELSE IF aid = None THEN Reply(TRUE, game, "Artist not found.")
          ELSE IF sid \in game.guessed_song_ids
          THEN Reply(TRUE, game, "Already guessed this song.")
          ELSE LET g1 == guess_song(game, sid, aid)
               IN  Reply(FALSE, g1.game, CASE g1.val = 2 -> "PERFECT MATCH!"
                                           [] g1.val = 1 -> "SONG CORRECT!"
                                           [] OTHER      -> "WRONG.")
      : d \in {o \in deserialize_game(state) : o.exc = None} }

\* guess_song(state, song_name, artist_name); sid and aid are what
\* find_song_id and find_artist_id resolved the names to (None: not found)
app_guess_song(state, sid, aid) ==
    { LET game == d.game
      IN  IF sid = None THEN Reply(TRUE, game, "Song not found.")
          ELSE IF aid = None THEN Reply(TRUE, game, "Artist not found.")
          ELSE IF sid \in game.guessed_song_ids
          THEN Reply(TRUE, game, "Already guessed this song.")
          ELSE LET g1 == guess_song(game, sid, aid)
                   g2 == prune_candidates(g1.game, sid, aid, g1.val)
               IN  Reply(FALSE, g2.game, CASE g1.val = 2 -> "PERFECT MATCH!"
                                           [] g1.val = 1 -> "SONG CORRECT!"
                                           [] OTHER      -> "WRONG.")
      : d \in {o \in deserialize_game(state) : o.exc = None} }

\* a guess_live handler whose removal is not kept to the wrong guesses
app_guess_live_always_removes(state, lid) ==
    { LET game == d.game
      IN  IF lid = None THEN Reply(TRUE, game, "Live not found.")
          ELSE LET g1 == guess_live(game, lid)
                   g2 == [g1.game EXCEPT !.possible_live_ids = @ \ {lid}]
               IN  Reply(FALSE, g2, IF g1.val THEN "CONGRATULATIONS!" ELSE "Incorrect Live.")
      : d \in {o \in deserialize_game(state) : o.exc = None} }

\* guess_live(state, live_name); lid is what find_live_id resolved the name to
app_guess_live(state, lid) ==
    { LET game == d.game
      IN  IF lid = None THEN Reply(TRUE, game, "Live not found.")
          ELSE LET g1 == guess_live(game, lid)
               IN  IF g1.val
                   THEN Reply(FALSE, g1.game, "CONGRATULATIONS!")
                   ELSE Reply(FALSE, [g1.game EXCEPT !.possible_live_ids = @ \ {lid}],
                              "Incorrect Live.")
      : d \in {o \in deserialize_game(state) : o.exc = None} }

\* get_entropy_hint(state): the move lists it may print
get_entropy_hint(state) ==
    UNION { get_best_moves(d.game, 5)
            : d \in {o \in deserialize_game(state) : o.exc = None} }

\* ------------------------------------------------------------------------
\* The agents (src/benchmark.py)
\* ------------------------------------------------------------------------

\* the live guess of one turn of HybridAIAgent.play: val is whether the
\* game was solved; a wrong guess is taken out of the candidates
HybridAIAgent_guess_live(g, guess_live_id) ==
    LET g1 == guess_live(g, guess_live_id)
    IN  IF g1.val
        THEN Outcome(g1.game, None, TRUE)
        ELSE Outcome([g1.game EXCEPT !.possible_live_ids = @ \ {guess_live_id}],
                     None, FALSE)

\* the turn limit of the play loops: max_turns in evaluate.py, range(20) in
\* the two agents of benchmark.py
max_turns == 20

\* what the model may put out for one live, in units that only matter
\* relative to each other (softmax may underflow to 0)
ProbArgs == 0..2

\* the locals of a play loop and what its last turn did:
\*   agent          whose loop it is ("none" while callers call at will)
\*   pc             "idle", "loop" (before a turn), "returned" or "raised"
\*   turns, solved, guessed_lives   the locals of that name
\*   submitted      the live the last turn handed to guess_live, or None
\*   by             why: "reranker" (the model's top live), "certainty" (the
\*                  only candidate left), or None
\*   ignored        whether a failed live guess of PureAlgoAgent was passed over
\*   song_only_mode, pruning_enabled   the choices made at the start of play_cli
\* songs_seq, artists_seq and feedbacks_seq are the columns of game.history
\* and are read from it.
NoPlay ==
    [ agent |-> "none", pc |-> "idle", turns |-> 0, solved |-> FALSE,
      guessed_lives |-> {}, submitted |-> None, by |-> None, ignored |-> FALSE,
      song_only_mode |-> FALSE, pruning_enabled |-> FALSE ]

\* the object and the locals after a turn
Turn(g, p) == [game |-> g, play |-> p]

RECURSIVE SumOver(_, _)
\* probs.sum() over the lives in S
SumOver(probs, S) ==
    IF S = {} THEN 0
    ELSE LET lid == CHOOSE lid \in S : TRUE
         IN  probs[lid] + SumOver(probs, S \ {lid})

\* probs * mask: the lives that are no candidates get probability 0
Masked(g, probs) ==
    [lid \in live_ids |-> IF lid \in g.possible_live_ids THEN probs[lid] ELSE 0]

\* torch.argmax / argsort(descending)[0]: a live of the highest probability
\* (which one among equals depends on the index order of the mappings)
ArgMax(probs) == {lid \in live_ids : \A other \in live_ids : probs[other] <= probs[lid]}

\* the end of a turn: the loop is left when range(20) is used up
EndOfTurn(p) == [p EXCEPT !.pc = IF p.turns >= max_turns THEN "returned" ELSE "loop"]

\* a song half that prunes as if every guess had missed
Agent_guess_song_prunes_as_miss(g, p) ==
    { LET sid == IF best_moves # << >> THEN best_moves[1][1] ELSE random
      IN  IF sid \notin song_ids
          THEN Turn(g, [p EXCEPT !.pc = "raised"])
          ELSE LET aids == songs[sid].artist_ids
                   aid == IF aids # << >> THEN aids[1] ELSE artist_ids[1]
                   guessed == guess_song(g, sid, aid)
                   pruned == prune_candidates(guessed.game, sid, aid, 0)
               IN  Turn(pruned.game, EndOfTurn(p))
      : best_moves \in get_best_moves(g, 1), random \in song_ids }

\* the song half of a turn of PureAlgoAgent.play and HybridAIAgent.play: the
\* top move of get_best_moves (a random song if there is none) is guessed
\* with its first credited artist and the candidates are pruned with the
\* feedback; songs[sid] raises KeyError for an id the songs map lacks
Agent_guess_song(g, p) ==
    { LET sid == IF best_moves # << >> THEN best_moves[1][1] ELSE random
      IN  IF sid \notin song_ids
          THEN Turn(g, [p EXCEPT !.pc = "raised"])
          ELSE LET aids == songs[sid].artist_ids
                   aid == IF aids # << >> THEN aids[1] ELSE artist_ids[1]
                   guessed == guess_song(g, sid, aid)
                   pruned == prune_candidates(guessed.game, sid, aid, guessed.val)
               IN  Turn(pruned.game, EndOfTurn(p))
      : best_moves \in get_best_moves(g, 1), random \in song_ids }

\* one turn of PureAlgoAgent.play
PureAlgoAgent_turn(g, p) ==
    LET p1 == [p EXCEPT !.turns = @ + 1, !.submitted = None, !.by = None]
    IN  IF Cardinality(g.possible_live_ids) = 1
        THEN LET final_guess == CHOOSE lid \in g.possible_live_ids : TRUE
                 p2 == [p1 EXCEPT !.submitted = final_guess, !.by = "certainty"]
                 o == guess_live(g, final_guess)
             IN  IF o.val
                 THEN {Turn(o.game, [p2 EXCEPT !.solved = TRUE, !.pc = "returned"])}
                 ELSE Agent_guess_song(o.game, [p2 EXCEPT !.ignored = TRUE])
        ELSE Agent_guess_song(g, p1)

\* a reranker that forgets the pruning mask
HybridAIAgent_predict_unmasked(g, probs, guessed_lives) ==
    IF g.history = << >> \/ g.possible_live_ids = {}
    THEN {None}
    ELSE LET total == SumOver(probs, live_ids)
         IN  { IF total > 0 /\ 10 * probs[top_lid] > 7 * total
                  /\ top_lid \notin guessed_lives
               THEN top_lid ELSE None
               : top_lid \in ArgMax(probs) }

\* the AI live prediction of HybridAIAgent.play: the live the reranker wants
\* guessed (None if it wants none), for the probabilities probs that the
\* network has put out; top_prob > 0.7 is 10 * top > 7 * sum after the
\* division by probs.sum(), and top_prob is 0 when that sum is 0
HybridAIAgent_predict(g, probs, guessed_lives) ==
    IF g.history = << >> \/ g.possible_live_ids = {}
    THEN {None}
    ELSE LET masked == Masked(g, probs)
             total == SumOver(masked, live_ids)
         IN  { IF total > 0 /\ 10 * masked[top_lid] > 7 * total
                  /\ top_lid \notin guessed_lives
               THEN top_lid ELSE None
               : top_lid \in ArgMax(masked) }

\* one turn of HybridAIAgent.play when the network puts out probs
HybridAIAgent_turn(g, p, probs) ==
    UNION { LET certain == Cardinality(g.possible_live_ids) = 1
                guess_live_id == IF certain
                                 THEN CHOOSE lid \in g.possible_live_ids : TRUE
                                 ELSE predicted
                p1 == [p EXCEPT !.turns = @ + 1,
                                !.submitted = guess_live_id,
                                !.by = IF certain THEN "certainty"
                                       ELSE IF predicted # None THEN "reranker"
                                       ELSE None]
            IN  IF guess_live_id # None
                THEN LET o == HybridAIAgent_guess_live(g, guess_live_id)
                     IN  IF o.val
                         THEN {Turn(o.game, [p1 EXCEPT !.solved = TRUE, !.pc = "returned"])}
                         ELSE Agent_guess_song(o.game,
                                  [p1 EXCEPT !.guessed_lives = @ \cup {guess_live_id}])
                ELSE Agent_guess_song(g, p1)
            : predicted \in HybridAIAgent_predict(g, probs, p.guessed_lives) }

\* --- the evaluation loop (src/evaluate.py) ---

\* the guess of the first turn: a random song with one of its credited
\* artists, or with any artist when it has none
evaluate_first_guess ==
    UNION { { <<sid, aid>> : aid \in IF songs[sid].artist_ids # << >>
                                     THEN Range(songs[sid].artist_ids)
                                     ELSE Range(artist_ids) }
            : sid \in song_ids }

\* the probabilities after the hard constraints: masked, and all candidates
\* alike when the mask leaves nothing
evaluate_probs(g, probs) ==
    LET masked == Masked(g, probs)
    IN  IF SumOver(masked, live_ids) = 0
        THEN [lid \in live_ids |-> IF lid \in g.possible_live_ids THEN 1 ELSE 0]
        ELSE masked

\* the live the evaluation loop wants guessed, or None
evaluate_predict(g, probs, guessed_lives) ==
    LET pr == evaluate_probs(g, probs)
        total == SumOver(pr, live_ids)
    IN  { IF 10 * pr[top_live_id] > 7 * total /\ top_live_id \notin guessed_lives
          THEN top_live_id ELSE None
          : top_live_id \in ArgMax(pr) }

\* the next song by the weighted probability split: an unguessed song of the
\* lives in possible_indices whose summed probability is nearest to one half
\* (twice the sum nearest to the total), a random song if all are guessed;
\* song_to_idx[sid] raises KeyError for an id the songs map lacks
evaluate_best_song(g, pr, possible_indices) ==
    LET weighty == {lid \in possible_indices : pr[lid] > 0}
        song_prob_sum == [sid \in UNION {lives[lid].song_ids : lid \in weighty} |->
                             SumOver(pr, {lid \in weighty : sid \in lives[lid].song_ids})]
        total == SumOver(pr, live_ids)
        diff(sid) == IF 2 * song_prob_sum[sid] >= total
                     THEN 2 * song_prob_sum[sid] - total
                     ELSE total - 2 * song_prob_sum[sid]
        guessed_set == {g.history[i][1] : i \in DOMAIN g.history}
        valid_sids == DOMAIN song_prob_sum \ guessed_set
    IN  IF DOMAIN song_prob_sum = {} THEN song_ids
        ELSE IF ~(DOMAIN song_prob_sum \subseteq song_ids) THEN {"KeyError"}
        ELSE IF valid_sids = {} THEN song_ids
        ELSE {sid \in valid_sids : \A other \in valid_sids : diff(sid) <= diff(other)}

\* "Execute guess": the guess and the pruning with its feedback
evaluate_guess_song(g, p, guess_song_id, guess_artist_id) ==
    LET guessed == guess_song(g, guess_song_id, guess_artist_id)
        pruned == prune_candidates(guessed.game, guess_song_id, guess_artist_id,
                                   guessed.val)
    IN  Turn(pruned.game, EndOfTurn(p))

\* the song half of a later turn of the evaluation loop
evaluate_next_song(g, p, pr, possible_indices) ==
    { IF best_song_id = "KeyError"
      THEN Turn(g, [p EXCEPT !.pc = "raised"])
      ELSE LET a_ids == songs[best_song_id].artist_ids
           IN  evaluate_guess_song(g, p, best_song_id,
                                   IF a_ids # << >> THEN a_ids[1] ELSE artist_ids[1])
      : best_song_id \in evaluate_best_song(g, pr, possible_indices) }

\* one turn of the loop of evaluate when the network puts out probs
evaluate_turn(g, p, probs) ==
    LET p1 == [p EXCEPT !.turns = @ + 1, !.submitted = None, !.by = None]
    IN  IF g.history = << >>
        THEN {evaluate_guess_song(g, p1, first[1], first[2]) : first \in evaluate_first_guess}
        ELSE IF g.possible_live_ids = {}
        THEN {Turn(g, [p1 EXCEPT !.pc = "returned"])}
        ELSE UNION {
               IF top_live_id = None
               THEN evaluate_next_song(g, p1, evaluate_probs(g, probs), g.possible_live_ids)
               ELSE LET p2 == [p1 EXCEPT !.submitted = top_live_id, !.by = "reranker"]
                        o == HybridAIAgent_guess_live(g, top_live_id)
                    IN  IF o.val
                        THEN {Turn(o.game, [p2 EXCEPT !.solved = TRUE, !.pc = "returned"])}
                        ELSE evaluate_next_song(o.game,
                                 [p2 EXCEPT !.guessed_lives = @ \cup {top_live_id}],
                                 evaluate_probs(g, probs), g.possible_live_ids)
               : top_live_id \in evaluate_predict(g, probs, p.guessed_lives) }

\* ------------------------------------------------------------------------
\* The state machine
\* ------------------------------------------------------------------------

\* usage records how the caller has pruned since the last start_game:
\*   "synced"   every valid guess_song so far was followed at once by
\*              prune_candidates with the same song, artist and the feedback
\*              the guess returned, and nothing else was pruned
\*   "pending"  as synced, but the last guess has not been pruned yet
\*   "off"      anything else
Usage == {"synced", "pending", "off"}

Call(op, exc, val) == [op |-> op, exc |-> exc, val |-> val]

\* the fields of the object g become the state
Becomes(g) ==
    /\ target_live_id' = g.target_live_id
    /\ target_live' = g.target_live
    /\ possible_live_ids' = g.possible_live_ids
    /\ guessed_song_ids' = g.guessed_song_ids
    /\ guessed_live_ids' = g.guessed_live_ids
    /\ history' = g.history

\* a session is in progress once start_game has chosen a target
Started == target_live_id # None

Init ==
    /\ data \in Catalogues
    /\ target_live_id = NewGame.target_live_id
    /\ target_live = NewGame.target_live
    /\ possible_live_ids = NewGame.possible_live_ids
    /\ guessed_song_ids = NewGame.guessed_song_ids
    /\ guessed_live_ids = NewGame.guessed_live_ids
    /\ history = NewGame.history
    /\ ret = Call("__init__", None, None)
    /\ usage = "synced"
    /\ play = NoPlay
    /\ files = [raw |-> << >>, game_data |-> <<data>>]

StartGame(target_id) ==
    /\ \E o \in start_game(Game, target_id) :
          /\ Becomes(o.game)
          /\ ret' = Call("start_game", o.exc, o.val)
    /\ usage' = "synced"
    /\ UNCHANGED <<data, files, play>>

GuessSong(song_id, artist_id) ==
    /\ Len(history) < MaxHistory
    /\ LET o == guess_song(Game, song_id, artist_id)
       IN  /\ Becomes(o.game)
           /\ ret' = Call("guess_song", o.exc, o.val)
           /\ usage' = IF o.game.history = history THEN usage
                       ELSE IF usage = "synced" THEN "pending" ELSE "off"
    /\ UNCHANGED <<data, files, play>>

GuessSongOnly(song_id) ==
    /\ Len(history) < MaxHistory
    /\ \E o \in guess_song_only(Game, song_id) :
          /\ Becomes(o.game)
          /\ ret' = Call("guess_song_only", o.exc, o.val)
          /\ usage' = IF o.game.history = history THEN usage ELSE "off"
    /\ UNCHANGED <<data, files, play>>

PruneCandidates(song_id, artist_id, feedback) ==
    /\ LET o == prune_candidates(Game, song_id, artist_id, feedback)
       IN  /\ Becomes(o.game)
           /\ ret' = Call("prune_candidates", o.exc, o.val)
    /\ usage' = IF /\ usage = "pending"
                   /\ history[Len(history)] = <<song_id, artist_id, feedback>>
                THEN "synced" ELSE "off"
    /\ UNCHANGED <<data, files, play>>

GuessLive(live_id) ==
    /\ LET o == guess_live(Game, live_id)
       IN  /\ Becomes(o.game)
           /\ ret' = Call("guess_live", o.exc, o.val)
    /\ UNCHANGED <<data, files, usage, play>>

CalculateEntropy(song_id) ==
    /\ calculate_entropy(Game, song_id) \in 0..One
    /\ ret' = Call("calculate_entropy", None, None)
    /\ UNCHANGED <<data, files, session, usage, play>>

\* a get_best_moves that marks the songs it returns as guessed
GetBestMoves_marks_guessed(top_k) ==
    /\ \E best_moves \in get_best_moves(Game, top_k) :
          guessed_song_ids' = guessed_song_ids \cup {best_moves[i][1] : i \in DOMAIN best_moves}
    /\ ret' = Call("get_best_moves", None, None)
    /\ UNCHANGED <<data, files, target_live_id, target_live, possible_live_ids,
                   guessed_live_ids, history, usage, play>>

GetBestMoves(top_k) ==
    /\ get_best_moves(Game, top_k) # {}
    /\ ret' = Call("get_best_moves", None, None)
    /\ UNCHANGED <<data, files, session, usage, play>>

\* the (song, artist) pair a caller prunes with: the one it guessed last
PruneArgs ==
    IF history = << >> THEN {}
    ELSE {<<history[Len(history)][1], history[Len(history)][2]>>}

Next ==
    \/ \E target_id \in {"L1", "L9", None} : StartGame(target_id)
    \/ \E song_id \in SongArgs, artist_id \in ArtistArgs : GuessSong(song_id, artist_id)
    \/ \E song_id \in SongArgs : GuessSongOnly(song_id)
    \/ \E guess \in PruneArgs, feedback \in FeedbackArgs :
          PruneCandidates(guess[1], guess[2], feedback)
    \/ \E live_id \in LiveArgs : GuessLive(live_id)
    \/ \E song_id \in SongArgs : CalculateEntropy(song_id)
    \/ \E top_k \in TopKArgs : GetBestMoves(top_k)

\* the engine under arbitrary calls
Spec == Init /\ [][Next]_vars

\* --- the front-end: the session lives in gr.State between handler calls ---

\* the gr.State values the front-end may hold for the current session
AppState ==
    IF Started THEN {<<snap>> : snap \in serialize_game(Game)} ELSE {<< >>}

\* the objects the snapshots of g deserialize to
Restored(g) ==
    { d.game : d \in { o \in UNION {deserialize_game(<<snap>>) : snap \in serialize_game(g)}
                       : o.exc = None } }

\* the session becomes the one that the gr.State value of the reply holds
Holds(r) ==
    IF r.kept THEN UNCHANGED <<session, usage>>
    ELSE /\ \E g \in Restored(r.game) : Becomes(g)
         /\ usage' = IF ~Started \/ usage = "synced" THEN "synced" ELSE "off"

InitGame ==
    /\ \E r \in init_game :
          /\ \E g \in Restored(r.game) : Becomes(g)
          /\ ret' = Call("app.init_game", None, r.msg)
    /\ usage' = "synced"
    /\ UNCHANGED <<data, files, play>>

AppGuessSong(sid, aid) ==
    /\ \E r \in UNION {app_guess_song(state, sid, aid) : state \in AppState} :
          /\ ~r.kept => Len(r.game.history) <= MaxHistory
          /\ Holds(r)
          /\ ret' = Call("app.guess_song", None, r.msg)
    /\ UNCHANGED <<data, files, play>>

AppGuessLive(lid) ==
    /\ \E r \in UNION {app_guess_live(state, lid) : state \in AppState} :
          /\ Holds(r)
          /\ ret' = Call("app.guess_live", None, r.msg)
    /\ UNCHANGED <<data, files, play>>

GetEntropyHint ==
    /\ UNION {get_entropy_hint(state) : state \in AppState} # {}
    /\ ret' = Call("app.get_entropy_hint", None, None)
    /\ UNCHANGED <<data, files, session, usage, play>>

NextApp ==
    \/ InitGame
    \/ \E sid \in song_ids \cup {None}, aid \in Range(artist_ids) \cup {None} :
          AppGuessSong(sid, aid)
    \/ \E lid \in live_ids \cup {None} : AppGuessLive(lid)
    \/ GetEntropyHint

\* the engine as the web front-end drives it
SpecApp == Init /\ [][NextApp]_vars

\* --- the play loops: one agent at a time plays games on the object ---

\* two lives that no guess tells apart
TwinData ==
    [ songs   |-> [s \in {"A"} |-> SongRec(<<"X">>)],
      artists |-> <<"X">>,
      lives   |-> [l \in {"L1", "L2"} |-> LiveRec({"A"}, {"X"})] ]

\* two lives with different setlists, one of which lists a song (C) that
\* the songs map lacks
SparseData ==
    [ songs   |-> [s \in {"A"} |-> SongRec(<<"X">>)],
      artists |-> <<"X">>,
      lives   |-> [l \in {"L1", "L2"} |->
                     IF l = "L1" THEN LiveRec({"A"}, {"X"})
                     ELSE LiveRec({"A", "C"}, {"X"})] ]

PlayCatalogues == Catalogues \cup {TwinData, SparseData}

Agents == {"PureAlgoAgent", "HybridAIAgent", "evaluate"}

InitPlay ==
    /\ data \in PlayCatalogues
    /\ target_live_id = NewGame.target_live_id
    /\ target_live = NewGame.target_live
    /\ possible_live_ids = NewGame.possible_live_ids
    /\ guessed_song_ids = NewGame.guessed_song_ids
    /\ guessed_live_ids = NewGame.guessed_live_ids
    /\ history = NewGame.history
    /\ ret = Call("__init__", None, None)
    /\ usage = "synced"
    /\ play = NoPlay
    /\ files = [raw |-> << >>, game_data |-> <<data>>]

\* the loop has made a turn: the object and the locals are those of t; the
\* call is over when the loop returned (solved, turns) or raised
Played(t) ==
    /\ Becomes(t.game)
    /\ play' = t.play
    /\ ret' = CASE t.play.pc = "raised"   -> Call("play", "KeyError", None)
                [] t.play.pc = "returned" -> Call("play", None, <<t.play.solved, t.play.turns>>)
                [] OTHER                  -> Call("play", None, None)
    /\ usage' = IF t.play.guessed_lives # play.guessed_lives THEN "off" ELSE usage
    /\ UNCHANGED <<data, files>>

\* play(target_live_id) of an agent, or evaluate(), begins: start_game with
\* the given target (a random one for evaluate) and fresh locals
Play(agent, target_id) ==
    /\ play.pc \in {"idle", "returned"}
    /\ \E o \in start_game(Game, IF agent = "evaluate" THEN None ELSE target_id) :
          Becomes(o.game)
    /\ play' = [NoPlay EXCEPT !.agent = agent, !.pc = "loop"]
    /\ ret' = Call("start_game", None, None)
    /\ usage' = "synced"
    /\ UNCHANGED <<data, files>>

PureAlgoTurn ==
    /\ play.agent = "PureAlgoAgent" /\ play.pc = "loop"
    /\ \E t \in PureAlgoAgent_turn(Game, play) : Played(t)

HybridAITurn(probs) ==
    /\ play.agent = "HybridAIAgent" /\ play.pc = "loop"
    /\ \E t \in HybridAIAgent_turn(Game, play, probs) : Played(t)

EvaluateTurn(probs) ==
    /\ play.agent = "evaluate" /\ play.pc = "loop"
    /\ \E t \in evaluate_turn(Game, play, probs) : Played(t)

NextPlay ==
    \/ \E agent \in Agents, target_id \in live_ids : Play(agent, target_id)
    \/ PureAlgoTurn
    \/ \E probs \in [live_ids -> ProbArgs] : HybridAITurn(probs)
    \/ \E probs \in [live_ids -> ProbArgs] : EvaluateTurn(probs)

\* the engine as the benchmark agents and the evaluation loop drive it
SpecPlay == InitPlay /\ [][NextPlay]_vars

\* --- the command line (play_cli of src/game.py), one command per step ---

\* the pruning of the song-only mode after guess_song_only has returned
\* (is_correct, matched_artists)
play_cli_prune_song_only(g, sid, is_correct, matched_artists) ==
    LET to_remove_cli ==
            IF is_correct
            THEN { lid \in g.possible_live_ids :
                     \/ sid \notin lives[lid].song_ids
                     \/ \E aid \in Range(matched_artists) : aid \notin lives[lid].artist_ids }
            ELSE { lid \in g.possible_live_ids : sid \in lives[lid].song_ids }
    IN  [g EXCEPT !.possible_live_ids = @ \ to_remove_cli]

\* command S: sid and aid are what find_song_id and find_artist_id make of
\* the names typed (None if nothing is found), confirm the answer to "Guess
\* anyway?"; the result is the set of objects the command may leave
play_cli_song(g, p, sid, aid, confirm) ==
    IF sid = None \/ sid \in g.guessed_song_ids
    THEN {g}
    ELSE IF /\ p.pruning_enabled
            /\ \A lid \in g.possible_live_ids : sid \notin lives[lid].song_ids
            /\ ~confirm
    THEN {g}
    ELSE IF p.song_only_mode
    THEN { IF p.pruning_enabled
           THEN play_cli_prune_song_only(o.game, sid, o.val[1], o.val[2])
           ELSE o.game
           : o \in guess_song_only(g, sid) }
    ELSE IF aid = None
    THEN {g}
    ELSE LET guessed == guess_song(g, sid, aid)
         IN  IF p.pruning_enabled
             THEN {prune_candidates(guessed.game, sid, aid, guessed.val).game}
             ELSE {guessed.game}

\* command L: val is whether the live was found, which ends the game
play_cli_live(g, p, lid) ==
    IF lid = None \/ lid \in g.guessed_live_ids
    THEN Outcome(g, None, FALSE)
    ELSE LET o == guess_live(g, lid)
         IN  IF o.val THEN o
             ELSE IF p.pruning_enabled
             THEN Outcome([o.game EXCEPT !.possible_live_ids = @ \ {lid}], None, FALSE)
             ELSE o

\* command A: the exceptions the table of best moves may end in (None for
\* none); songs[sid] raises KeyError for an id the songs map lacks
play_cli_analyze(g) ==
    { IF \E i \in DOMAIN best_moves : best_moves[i][1] \notin song_ids
      THEN "KeyError" ELSE None
      : best_moves \in get_best_moves(g, 5) }

CliStart(song_only_mode, pruning_enabled) ==
    /\ play.pc = "idle"
    /\ \E o \in start_game(Game, None) : Becomes(o.game)
    /\ play' = [NoPlay EXCEPT !.agent = "play_cli", !.pc = "loop",
                              !.song_only_mode = song_only_mode,
                              !.pruning_enabled = pruning_enabled]
    /\ ret' = Call("start_game", None, None)
    /\ usage' = "synced"
    /\ UNCHANGED <<data, files>>

CliSong(sid, aid, confirm) ==
    /\ play.agent = "play_cli" /\ play.pc = "loop"
    /\ \E g \in play_cli_song(Game, play, sid, aid, confirm) :
          /\ Becomes(g)
          /\ usage' = IF g.history = history THEN usage
                      ELSE IF play.song_only_mode \/ ~play.pruning_enabled THEN "off"
                      ELSE usage
    /\ ret' = Call("play_cli.S", None, None)
    /\ UNCHANGED <<data, files, play>>

CliLive(lid) ==
    /\ play.agent = "play_cli" /\ play.pc = "loop"
    /\ LET o == play_cli_live(Game, play, lid)
       IN  /\ Becomes(o.game)
           /\ play' = IF o.val THEN [play EXCEPT !.pc = "returned", !.solved = TRUE]
                      ELSE play
           /\ usage' = IF o.game.possible_live_ids = possible_live_ids THEN usage ELSE "off"
    /\ ret' = Call("play_cli.L", None, None)
    /\ UNCHANGED <<data, files>>

CliAnalyze ==
    /\ play.agent = "play_cli" /\ play.pc = "loop"
    /\ \E exc \in play_cli_analyze(Game) :
          /\ ret' = Call("play_cli.A", exc, None)
          /\ play' = IF exc = None THEN play ELSE [play EXCEPT !.pc = "raised"]
    /\ UNCHANGED <<data, files, session, usage>>

CliQuit ==
    /\ play.agent = "play_cli" /\ play.pc = "loop"
    /\ play' = [play EXCEPT !.pc = "returned"]
    /\ ret' = Call("play_cli.Q", None, None)
    /\ UNCHANGED <<data, files, session, usage>>

NextCLI ==
    \/ \E song_only_mode \in BOOLEAN, pruning_enabled \in BOOLEAN :
          CliStart(song_only_mode, pruning_enabled)
    \/ \E sid \in song_ids \cup {None}, aid \in Range(artist_ids) \cup {None},
          confirm \in BOOLEAN : CliSong(sid, aid, confirm)
    \/ \E lid \in live_ids \cup {None} : CliLive(lid)
    \/ CliAnalyze
    \/ CliQuit

\* the engine as the command line drives it
SpecCLI == Init /\ [][NextCLI]_vars

\* ------------------------------------------------------------------------
\* The data pipeline (src/preprocess.py, src/prune_game_data.py) and the
\* loading of its product.  The raw data is
\*   songs       song id -> the ids of its credits (None for a credit
\*               without id), from song-info.json
\*   artists     the artist ids of artists-info.json, in file order
\*   lives_info  live id -> hasSetlist, from performance-info.json
\*   setlists    live id -> its items <<type, songId>>, from
\*               performance-setlists.json
\* ------------------------------------------------------------------------

\* the ids that a comprehension with "if a.get('id')" keeps
Truthy(ids) == LET keep(id) == id # None IN SelectSeq(ids, keep)

\* preprocess: the game_data.json it writes
preprocess(raw) ==
    LET song_map == [sid \in DOMAIN raw.songs |-> SongRec(Truthy(raw.songs[sid]))]
        valid_lives_info == {lid \in DOMAIN raw.lives_info : raw.lives_info[lid]}
        live_song_ids(lid) ==
            { raw.setlists[lid][i][2] :
                i \in { j \in DOMAIN raw.setlists[lid] :
                          /\ raw.setlists[lid][j][1] = "song"
                          /\ raw.setlists[lid][j][2] # None } }
        live_artist_ids(lid) ==
            UNION { Range(song_map[sid].artist_ids) :
                      sid \in live_song_ids(lid) \cap DOMAIN song_map }
        kept == { lid \in DOMAIN raw.setlists \cap valid_lives_info :
                    live_song_ids(lid) # {} }
    IN  [ songs   |-> song_map,
          artists |-> raw.artists,
          lives   |-> [lid \in kept |-> LiveRec(live_song_ids(lid), live_artist_ids(lid))] ]

\* prune of prune_game_data.py: game_data.json with the songs and artists that no live uses
\* taken out; the lives are written back as they were read
prune_game_data(game_data) ==
    LET used_song_ids == UNION {game_data.lives[lid].song_ids : lid \in DOMAIN game_data.lives}
        used_artist_ids ==
            UNION { Range(game_data.songs[sid].artist_ids) :
                      sid \in used_song_ids \cap DOMAIN game_data.songs }
            \cup UNION {game_data.lives[lid].artist_ids : lid \in DOMAIN game_data.lives}
        used(aid) == aid \in used_artist_ids
    IN  [ songs   |-> [sid \in DOMAIN game_data.songs \cap used_song_ids |->
                         game_data.songs[sid]],
          artists |-> SelectSeq(game_data.artists, used),
          lives   |-> game_data.lives ]

\* LoveLiveGame(data_path): the object, or the exception of the first
\* subscript that fails; the records are not looked into
LoveLiveGame(game_data) ==
    IF {"songs", "artists", "lives"} \subseteq DOMAIN game_data
    THEN Outcome([ target_live_id    |-> None,
                   target_live       |-> None,
                   possible_live_ids |-> DOMAIN game_data.lives,
                   guessed_song_ids  |-> {},
                   guessed_live_ids  |-> {},
                   history           |-> << >> ], None, None)
    ELSE Outcome(None, "KeyError", None)

\* the setlists of the raw data: up to two items, each a song that
\* song-info knows (A, B), a song that it lacks (C), a song item without
\* songId, or a talk
Items == {<<"song", "A">>, <<"song", "B">>, <<"song", "C">>, <<"song", None>>, <<"mc", None>>}
Setlists == {<< >>} \cup {<<i>> : i \in Items} \cup {<<i, j>> : i, j \in Items}

RawInputs ==
    { [ songs      |-> song_info,
        artists    |-> <<"X", "Y">>,
        lives_info |-> [lid \in {"L1", "L2"} |-> lid = "L1" \/ hasSetlist],
        setlists   |-> [lid \in {"L1", "L2"} |-> IF lid = "L1" THEN first ELSE second] ]
      : song_info \in { [sid \in {"A"} |-> <<"X">>],
                        [sid \in {"A", "B"} |-> IF sid = "A" THEN <<"X">> ELSE << >>],
                        [sid \in {"A", "B"} |-> IF sid = "A" THEN <<"X">> ELSE <<None, "Y">>] },
        hasSetlist \in BOOLEAN,
        first \in Setlists,
        second \in {<< >>, <<<<"song", "A">>>>, <<<<"song", "A">>, <<"song", "C">>>>} }

\* game_data.json files that someone wrote without one of the three keys
KeylessFiles ==
    { [songs |-> ScenarioData.songs, artists |-> ScenarioData.artists],
      [songs |-> ScenarioData.songs, lives |-> ScenarioData.lives],
      [artists |-> ScenarioData.artists, lives |-> ScenarioData.lives] }

\* the catalogue of an object that does not exist yet
NoData == [songs |-> << >>, artists |-> << >>, lives |-> << >>]

InitETL ==
    /\ files \in { [raw |-> <<raw>>, game_data |-> game_data] :
                     raw \in RawInputs,
                     game_data \in {<< >>} \cup {<<file>> : file \in KeylessFiles} }
    /\ data = NoData
    /\ target_live_id = None
    /\ target_live = None
    /\ possible_live_ids = {}
    /\ guessed_song_ids = {}
    /\ guessed_live_ids = {}
    /\ history = << >>
    /\ ret = Call("none", None, None)
    /\ usage = "synced"
    /\ play = NoPlay

Preprocess ==
    /\ files' = [files EXCEPT !.game_data = <<preprocess(files.raw[1])>>]
    /\ ret' = Call("preprocess", None, None)
    /\ UNCHANGED <<data, session, usage, play>>

Prune ==
    /\ files.game_data # << >>
    /\ IF {"songs", "artists", "lives"} \subseteq DOMAIN files.game_data[1]
       THEN /\ files' = [files EXCEPT !.game_data = <<prune_game_data(files.game_data[1])>>]
            /\ ret' = Call("prune", None, None)
       ELSE /\ ret' = Call("prune", "KeyError", None)
            /\ UNCHANGED files
    /\ UNCHANGED <<data, session, usage, play>>

\* LoveLiveGame('game_data.json'): on success the state is the new object
Load ==
    /\ files.game_data # << >>
    /\ LET o == LoveLiveGame(files.game_data[1])
       IN  IF o.exc = None
           THEN /\ data' = files.game_data[1]
                /\ Becomes(o.game)
                /\ ret' = Call("__init__", None, None)
           ELSE /\ ret' = Call("__init__", o.exc, None)
                /\ UNCHANGED <<data, session>>
    /\ UNCHANGED <<files, usage, play>>

NextETL ==
    \/ Preprocess
    \/ Prune
    \/ Load

\* the pipeline from the raw data to the loaded catalogue
SpecETL == InitETL /\ [][NextETL]_vars

\* ------------------------------------------------------------------------
\* Properties
\* ------------------------------------------------------------------------

\* the feedback rule of the specification (4.2), stated on the two sets
Score(song_id, artist_id, live_songs, live_artists) ==
    CASE song_id \notin live_songs   -> 0
      [] artist_id \in live_artists  -> 2
      [] OTHER                       -> 1

\* the lives of the catalogue that agree with every entry of the history h
Consistent(h) ==
    { lid \in live_ids :
        \A i \in DOMAIN h :
           Score(h[i][1], h[i][2], lives[lid].song_ids, lives[lid].artist_ids) = h[i][3] }

\* C1: while every prune_candidates call of the session was made right after
\* a valid guess_song call, with that call's song and artist and the
\* feedback it returned, the target live id is in possible_live_ids (so the
\* candidate set is not empty).
C1_TargetSurvivesPruning ==
    (Started /\ usage # "off") => target_live_id \in possible_live_ids

\* C1 witness: two guesses, each pruned with its feedback, have removed lives
C1_Witness ==
    /\ Started /\ usage = "synced" /\ ret.op = "prune_candidates"
    /\ Len(history) = 2
    /\ possible_live_ids # live_ids

\* C2: for every candidate set, song, artist and feedback in {0, 1, 2},
\* prune_candidates leaves exactly the candidates whose feedback for the
\* guess, computed by the rule, equals the given feedback.
C2_PruneIsSimulateAndCompare ==
    \A song_id \in SongArgs, artist_id \in ArtistArgs, feedback \in {0, 1, 2} :
       prune_candidates(Game, song_id, artist_id, feedback).game.possible_live_ids
         = { lid \in possible_live_ids :
               Score(song_id, artist_id, lives[lid].song_ids, lives[lid].artist_ids)
                 = feedback }

\* C2 witness: after a prune call some candidate lacks a song while it has
\* an artist, the case in which the code's two separate tests both apply
C2_Witness ==
    /\ ret.op = "prune_candidates"
    /\ \E lid \in possible_live_ids, song_id \in SongArgs, artist_id \in ArtistArgs :
          /\ song_id \notin lives[lid].song_ids
          /\ artist_id \in lives[lid].artist_ids

\* C3: for a song of the catalogue, guess_song returns 0 when the song is not
\* in the target's song_ids, 2 when it is and the artist is in the target's
\* artist_ids, and 1 otherwise, whatever the song's own artist list is.
C3_GuessSongFeedback ==
    Started =>
      \A song_id \in song_ids, artist_id \in ArtistArgs :
         LET o == guess_song(Game, song_id, artist_id)
         IN  /\ o.exc = None
             /\ o.val = Score(song_id, artist_id,
                              lives[target_live_id].song_ids,
                              lives[target_live_id].artist_ids)

\* C3 witness: a guess returned 2 for an artist the song's own list lacks
C3_Witness ==
    /\ ret.op = "guess_song" /\ ret.exc = None /\ ret.val = 2
    /\ LET last == history[Len(history)]
       IN  last[2] \notin Range(songs[last[1]].artist_ids)

\* C4: in the front-end flow, where every valid guess is pruned at once with
\* the feedback it returned, possible_live_ids is exactly the set of lives
\* that agree with every history entry, minus the lives removed after a
\* wrong live guess.
C4_CandidatesAreTheConsistentLives ==
    Started =>
      possible_live_ids = Consistent(history) \ (guessed_live_ids \ {target_live_id})

\* C4 witness: two guesses and a wrong live guess have narrowed the candidates
C4_Witness ==
    /\ Started /\ ret.op = "app.guess_song"
    /\ Len(history) = 2
    /\ guessed_live_ids \ {target_live_id} # {}
    /\ Consistent(history) \notin {live_ids, possible_live_ids}

\* C5: no call other than start_game makes possible_live_ids grow: the
\* candidates after the call are a subset of the candidates before it.
C5_CandidatesNeverGrow ==
    [][ret'.op # "start_game" => possible_live_ids' \subseteq possible_live_ids]_vars

\* C5 witness: a query ran on a candidate set that had already shrunk
C5_Witness ==
    /\ ret.op = "get_best_moves"
    /\ possible_live_ids # live_ids
    /\ possible_live_ids # {}

\* C6: guess_song and guess_song_only, called with a song id that is not in
\* the catalogue, return the invalid result (-1, respectively (False, []))
\* and leave the object as it was, in every state, so also when repeated.
C6_InvalidGuessIsNoOp ==
    \A song_id \in SongArgs \ song_ids :
       /\ \A artist_id \in ArtistArgs :
             guess_song(Game, song_id, artist_id) = Outcome(Game, None, -1)
       /\ guess_song_only(Game, song_id) = {Outcome(Game, None, <<FALSE, << >> >>)}

\* C6 witness: guess_song has returned -1 in a session that has a history
C6_Witness ==
    /\ ret.op = "guess_song" /\ ret.exc = None /\ ret.val = -1
    /\ Started /\ history # << >> /\ guessed_live_ids # {}

\* C7: a guess_song call of a started session with a song of the catalogue
\* adds the song to guessed_song_ids and appends the one entry
\* (song, artist, returned feedback) to the end of history, leaving the
\* earlier entries as they were.
C7_GuessSongAppends ==
    Started =>
      \A song_id \in song_ids, artist_id \in ArtistArgs :
         LET o == guess_song(Game, song_id, artist_id) IN
           /\ o.exc = None
           /\ o.game.history = Append(history, <<song_id, artist_id, o.val>>)
           /\ o.game.guessed_song_ids = guessed_song_ids \cup {song_id}

\* C7 witness: a second entry was appended, for a song guessed before
C7_Witness ==
    /\ ret.op = "guess_song" /\ ret.exc = None /\ ret.val # -1
    /\ Len(history) = 2
    /\ history[1][1] = history[2][1] /\ history[1] # history[2]

\* C8: for a started session, every snapshot serialize_game may build is
\* turned by deserialize_game into an object with the same target_live_id,
\* possible_live_ids, guessed_song_ids, guessed_live_ids and history.
C8_SerializeRoundTrip ==
    Started =>
      \A snap \in serialize_game(Game) : \A d \in deserialize_game(<<snap>>) :
         /\ d.exc = None
         /\ d.game.target_live_id = target_live_id
         /\ d.game.possible_live_ids = possible_live_ids
         /\ d.game.guessed_song_ids = guessed_song_ids
         /\ d.game.guessed_live_ids = guessed_live_ids
         /\ d.game.history = history

\* C8 witness: a session whose sets have several elements each, so that the
\* order of the snapshot's lists is a choice, and whose history has entries
C8_Witness ==
    /\ Started /\ usage = "synced"
    /\ Len(history) = 2
    /\ Cardinality(guessed_song_ids) = 2
    /\ guessed_live_ids # {}
    /\ Cardinality(possible_live_ids) = 2
    /\ Cardinality(serialize_game(Game)) = 4

\* the songs of the candidates' setlists that were not guessed yet
Eligible ==
    { song_id \in UNION {lives[lid].song_ids : lid \in live_ids} :
        /\ \E lid \in possible_live_ids : song_id \in lives[lid].song_ids
        /\ song_id \notin guessed_song_ids }

Min(a, b) == IF a < b THEN a ELSE b
Abs(a) == IF a < 0 THEN 0 - a ELSE a

\* C9: get_best_moves(top_k) returns songs that are on the setlist of some
\* candidate live and were not guessed, each at most once, and as many of
\* them as there are, up to top_k.
C9_BestMovesAreEligibleSongs ==
    \A top_k \in TopKArgs : \A moves \in get_best_moves(Game, top_k) :
       /\ \A i \in DOMAIN moves : moves[i][1] \in Eligible
       /\ \A i, j \in DOMAIN moves : i # j => moves[i][1] # moves[j][1]
       /\ Len(moves) = Min(top_k, Cardinality(Eligible))

\* C9 witness: the query ran when a song of the candidates was already
\* guessed and more songs were eligible than the shortest list holds
C9_Witness ==
    /\ ret.op = "get_best_moves"
    /\ possible_live_ids # live_ids
    /\ \E lid \in possible_live_ids : guessed_song_ids \cap lives[lid].song_ids # {}
    /\ Cardinality(Eligible) >= 2

\* the number of candidates whose setlist has the song
YesCount(song_id) ==
    Cardinality({lid \in possible_live_ids : song_id \in lives[lid].song_ids})

\* C10: the list get_best_moves returns carries each song's entropy, is in
\* descending order of it, leaves out no eligible song with a strictly higher
\* entropy than a listed one, and is in ascending order of |2y - n| for n
\* candidates of which y have the song.
C10_BestMovesOrderedByEntropy ==
    \A top_k \in TopKArgs : \A moves \in get_best_moves(Game, top_k) :
       /\ \A i \in DOMAIN moves : moves[i][2] = calculate_entropy(Game, moves[i][1])
       /\ \A i, j \in DOMAIN moves : i < j =>
             /\ moves[i][2] >= moves[j][2]
             /\ Abs(2 * YesCount(moves[i][1]) - Cardinality(possible_live_ids))
                  <= Abs(2 * YesCount(moves[j][1]) - Cardinality(possible_live_ids))
       /\ \A song_id \in Eligible \ {moves[i][1] : i \in DOMAIN moves} :
             \A i \in DOMAIN moves : calculate_entropy(Game, song_id) <= moves[i][2]

\* C10 witness: the query ran when the eligible songs had different
\* entropies and outnumbered the shortest list
C10_Witness ==
    /\ ret.op = "get_best_moves"
    /\ Cardinality(Eligible) >= 2
    /\ \E s1, s2 \in Eligible : calculate_entropy(Game, s1) < calculate_entropy(Game, s2)

\* C11: calculate_entropy is between 0 and 1 for every song argument; it is
\* 0 when there is at most one candidate or the song is in none or in all of
\* the candidates, and positive when it is in some but not all of two or more.
C11_EntropyRange ==
    \A song_id \in SongArgs :
       LET h == calculate_entropy(Game, song_id)
           n == Cardinality(possible_live_ids)
           y == YesCount(song_id)
       IN  /\ 0 <= h /\ h <= One
           /\ (n <= 1 \/ y = 0 \/ y = n) => h = 0
           /\ (n >= 2 /\ 0 < y /\ y < n) => h > 0

\* C11 witness: the query ran with two candidates, of which one has a song
\* (entropy 1), both have another and none has a third
C11_Witness ==
    /\ ret.op = "calculate_entropy"
    /\ Cardinality(possible_live_ids) = 2
    /\ \E s1, s2, s3 \in SongArgs :
          /\ YesCount(s1) = 1 /\ calculate_entropy(Game, s1) = One
          /\ YesCount(s2) = 2
          /\ YesCount(s3) = 0

\* the scenario: the three-live catalogue, a started session, every live a
\* candidate and no song guessed
ScenarioStart ==
    /\ data = ScenarioData
    /\ Started
    /\ possible_live_ids = live_ids
    /\ guessed_song_ids = {}

\* C12 as claimed: in the scenario song B has a strictly higher entropy than
\* song A and than song C.
C12_BRanksStrictlyHigher ==
    ScenarioStart =>
       /\ calculate_entropy(Game, "B") > calculate_entropy(Game, "A")
       /\ calculate_entropy(Game, "B") > calculate_entropy(Game, "C")

\* C12 as amended: in the scenario the songs A (in one of the three lives), B
\* and C (in two each) have the same entropy, 0.918 to within the 0.003 that
\* the truncating logarithm loses, and get_best_moves returns the three with
\* that score in any order.
C12_ScenarioEntropiesAreEqual ==
    ScenarioStart =>
       LET h == calculate_entropy(Game, "B")
       IN  /\ calculate_entropy(Game, "A") = h
           /\ calculate_entropy(Game, "C") = h
           /\ Abs(1000 * h - 918 * One) <= 3 * One
           /\ get_best_moves(Game, 5)
                = { [i \in 1..3 |-> <<order[i], h>>] : order \in Perms({"A", "B", "C"}) }
           /\ \A first \in {"A", "B", "C"} : <<<<first, h>>>> \in get_best_moves(Game, 1)

\* C12 witness: get_best_moves ran in the scenario
C12_Witness == ScenarioStart /\ ret.op = "get_best_moves" /\ history = << >>

\* C13: in the scenario catalogue with target L1 and every live a candidate,
\* guess_song(A, X) returns 2, and prune_candidates(A, X, 2) after it leaves
\* the candidates {L1} and returns 1.
C13_ScenarioGuessAndPrune ==
    (data = ScenarioData /\ target_live_id = "L1" /\ possible_live_ids = live_ids) =>
       LET guess == guess_song(Game, "A", "X")
           prune == prune_candidates(guess.game, "A", "X", 2)
       IN  /\ guess.exc = None /\ guess.val = 2
           /\ prune.exc = None /\ prune.val = 1
           /\ prune.game.possible_live_ids = {"L1"}

\* C13 witness: the session of the scenario after the guess and the prune
C13_Witness ==
    /\ data = ScenarioData /\ target_live_id = "L1"
    /\ ret.op = "prune_candidates" /\ ret.val = 1
    /\ history = << <<"A", "X", 2>> >>
    /\ possible_live_ids = {"L1"}
    /\ usage = "synced"

\* C14: guess_live(live_id) returns whether live_id is the target, adds
\* live_id to guessed_live_ids and changes nothing else; a wrong guess stays
\* a candidate.
C14_GuessLiveFrame ==
    \A live_id \in live_ids \cup {"L9"} :
       LET o == guess_live(Game, live_id)
       IN  /\ o.exc = None
           /\ o.val = (live_id = target_live_id)
           /\ o.game = [Game EXCEPT !.guessed_live_ids = @ \cup {live_id}]

\* C14 witness: a wrong live guess was made in a started session and the
\* guessed live is still a candidate
C14_Witness ==
    /\ ret.op = "guess_live" /\ ret.val = FALSE
    /\ Started
    /\ guessed_live_ids \cap possible_live_ids # {}
    /\ history # << >>

\* C15: in the front-end flow the target is a candidate after every handler
\* call, and a live guess of the front-end or of the hybrid agent changes the
\* candidates by removing the guessed live when it is wrong, and not at all
\* when it is right.
C15_WrongLiveGuessRemovesOnlyItself ==
    Started =>
       /\ target_live_id \in possible_live_ids
       /\ \A lid \in live_ids :
             LET left == IF lid = target_live_id THEN possible_live_ids
                         ELSE possible_live_ids \ {lid}
             IN  /\ \A state \in AppState : \A r \in app_guess_live(state, lid) :
                       ~r.kept /\ r.game.possible_live_ids = left
                 /\ HybridAIAgent_guess_live(Game, lid).game.possible_live_ids = left

\* C15 witness: a wrong live guess of the front-end has removed a live that
\* the song feedback so far had not excluded
C15_Witness ==
    /\ Started /\ ret.op = "app.guess_live" /\ ret.val = "Incorrect Live."
    /\ history # << >>
    /\ \E lid \in guessed_live_ids \cap Consistent(history) :
          lid # target_live_id /\ lid \notin possible_live_ids

\* C16: a guess_song or guess_song_only call leaves possible_live_ids as it
\* was, whatever it returns or raises.
C16_GuessDoesNotPrune ==
    [][ret'.op \in {"guess_song", "guess_song_only"} =>
          possible_live_ids' = possible_live_ids]_vars

\* C16 witness: a guess was recorded whose feedback excludes some live, and
\* every live is still a candidate
C16_Witness ==
    /\ ret.op \in {"guess_song", "guess_song_only"} /\ ret.exc = None
    /\ Len(history) = 2
    /\ Consistent(history) # live_ids
    /\ possible_live_ids = live_ids

\* C17: in every state start_game succeeds, for a live id of the catalogue,
\* another id or none; afterwards every live is a candidate, the guessed sets
\* and the history are empty, the returned value is the new target, and the
\* new target is the id passed when that is a live of the catalogue.
C17_StartGameResets ==
    \A target_id \in live_ids \cup {"L9", None} :
       /\ start_game(Game, target_id) # {}
       /\ \A o \in start_game(Game, target_id) :
             /\ o.exc = None
             /\ o.game.possible_live_ids = live_ids
             /\ o.game.guessed_song_ids = {}
             /\ o.game.guessed_live_ids = {}
             /\ o.game.history = << >>
             /\ o.val \in live_ids
             /\ o.game.target_live_id = o.val
             /\ o.game.target_live = lives[o.val]
             /\ target_id \in live_ids => o.val = target_id

\* C17 witness: start_game has run without a usable target id and chose a
\* live by itself
C17_Witness ==
    /\ ret.op = "start_game" /\ ret.exc = None /\ ret.val = "L3"
    /\ target_live_id = "L3" /\ possible_live_ids = live_ids
    /\ guessed_song_ids = {} /\ guessed_live_ids = {} /\ history = << >>

\* C18: no call other than start_game changes target_live_id or target_live.
C18_TargetIsFixed ==
    [][ret'.op # "start_game" =>
          /\ target_live_id' = target_live_id
          /\ target_live' = target_live]_vars

\* C18 witness: a session with its target after song guesses, a prune, a
\* right live guess and a query
C18_Witness ==
    /\ Started /\ ret.op = "get_best_moves"
    /\ target_live = lives[target_live_id]
    /\ Len(history) = 2
    /\ target_live_id \in guessed_live_ids
    /\ possible_live_ids # live_ids

\* C19: a call other than start_game removes nothing from guessed_song_ids
\* or guessed_live_ids, and the history before it is a prefix of the history
\* after it.
C19_GuessesOnlyGrow ==
    [][ret'.op # "start_game" =>
          /\ guessed_song_ids \subseteq guessed_song_ids'
          /\ guessed_live_ids \subseteq guessed_live_ids'
          /\ Len(history) <= Len(history')
          /\ SubSeq(history', 1, Len(history)) = history]_vars

\* C19 witness: both sets and the history have grown, the songs by two
C19_Witness ==
    /\ Started /\ ret.op # "start_game"
    /\ Cardinality(guessed_song_ids) = 2
    /\ guessed_live_ids # {}
    /\ Len(history) = 2

\* the artists guess_song_only is to reveal for a song of the target: those
\* of the target live that the song credits, or all the song credits when
\* there is none
Revealed(song_id) ==
    LET credits == Range(songs[song_id].artist_ids)
        both == target_live.artist_ids \cap credits
    IN  IF both # {} THEN both ELSE credits

\* C20 as claimed: guess_song_only on a catalogue song of the target returns
\* (True, matched) with matched listing exactly the revealed artists, and
\* appends the one entry (song_id, first element of matched, 2).
C20_HistoryTakesFirstMatched ==
    Started =>
       \A song_id \in song_ids \cap target_live.song_ids :
          \A o \in guess_song_only(Game, song_id) :
             /\ o.exc = None
             /\ o.val[1] = TRUE
             /\ Range(o.val[2]) = Revealed(song_id)
             /\ Len(o.val[2]) = Cardinality(Revealed(song_id))
             /\ o.val[2] # << >>
             /\ o.game.history = Append(history, <<song_id, o.val[2][1], 2>>)

\* C20 as amended: the same, except that the entry takes the first artist id
\* of the catalogue when matched is empty, which it is for a song that
\* credits no artist.
C20_HistoryTakesFirstMatchedOrPlaceholder ==
    Started =>
       \A song_id \in song_ids \cap target_live.song_ids :
          /\ guess_song_only(Game, song_id) # {}
          /\ \A o \in guess_song_only(Game, song_id) :
                LET matched == o.val[2]
                    aid == IF matched # << >> THEN matched[1] ELSE artist_ids[1]
                IN  /\ o.exc = None
                    /\ o.val[1] = TRUE
                    /\ Range(matched) = Revealed(song_id)
                    /\ Len(matched) = Cardinality(Revealed(song_id))
                    /\ matched = << >> <=> songs[song_id].artist_ids = << >>
                    /\ o.game.history = Append(history, <<song_id, aid, 2>>)

\* C20 witness: guess_song_only has hit with a song that credits no artist
\* and has recorded the first artist of the catalogue
C20_Witness ==
    /\ ret.op = "guess_song_only" /\ ret.exc = None
    /\ ret.val = <<TRUE, << >> >>
    /\ history # << >>
    /\ history[Len(history)] = <<"B", artist_ids[1], 2>>

\* C21: guess_song_only on a catalogue song that the target does not have
\* returns (False, []), adds the song to guessed_song_ids and appends the one
\* entry (song_id, first artist id of the catalogue, 0), and nothing else.
C21_SongOnlyMissIsRecorded ==
    Started =>
       \A song_id \in song_ids \ target_live.song_ids :
          guess_song_only(Game, song_id)
            = { Outcome([Game EXCEPT
                           !.guessed_song_ids = @ \cup {song_id},
                           !.history = Append(@, <<song_id, artist_ids[1], 0>>)],
                        None, <<FALSE, << >> >>) }

\* C21 witness: guess_song_only has missed and recorded the placeholder
C21_Witness ==
    /\ ret.op = "guess_song_only" /\ ret.exc = None
    /\ ret.val = <<FALSE, << >> >>
    /\ Len(history) = 2
    /\ history[2][2] = artist_ids[1] /\ history[2][3] = 0
    /\ history[2][1] \in guessed_song_ids \ target_live.song_ids
    /\ history[1][1] # history[2][1]

\* C22: the learned reranker never overrides the hard constraints: whatever
\* probabilities the network puts out, the live that a turn of
\* HybridAIAgent.play or of the evaluation loop hands to guess_live is one
\* of the candidates at the moment of the guess.
C22_RerankerKeepsHardConstraints ==
    [][ (/\ play'.agent \in {"HybridAIAgent", "evaluate"}
         /\ play'.turns = play.turns + 1
         /\ play'.submitted # None)
        => play'.submitted \in possible_live_ids ]_vars

\* the reranker of the agent had a live guessed that was a candidate and
\* not the target, while other candidates were left
C22_Witness ==
    /\ play.agent = "HybridAIAgent"
    /\ play.by = "reranker"
    /\ play.submitted \in play.guessed_lives
    /\ play.submitted \notin possible_live_ids
    /\ Cardinality(possible_live_ids) >= 1

\* guess_live has returned true for the target since the last start_game:
\* only guess_live adds to guessed_live_ids, and it adds what it was given
Solved == Started /\ target_live_id \in guessed_live_ids

\* C23: SOLVED is a terminal state: once guess_live has returned true for
\* the target, no operation other than start_game changes the session state
\* (guessed sets, history, candidates) any further.
C23_SolvedIsTerminal ==
    [][ (Solved /\ ret'.op # "start_game") => session' = session ]_vars

\* the lives of the dataset d list only songs of its songs map
NoDanglingSong(d) ==
    \A lid \in DOMAIN d.lives : d.lives[lid].song_ids \subseteq DOMAIN d.songs

\* C24: every song id listed in the song_ids of a live in the dataset that
\* preprocess produces (and prune_game_data keeps) is a key of that
\* dataset's songs map.
C24_LiveSongsAreInSongsMap ==
    ret.op \in {"preprocess", "prune"} /\ ret.exc = None
       => NoDanglingSong(files.game_data[1])

\* C25: constructing the catalogue fails with an error when the dataset
\* lacks one of the keys songs, artists or lives, and also when some live
\* references a song id that is not in the songs map.
C25_ConstructorValidates ==
    ret.op = "__init__" =>
       LET game_data == files.game_data[1]
           complete == {"songs", "artists", "lives"} \subseteq DOMAIN game_data
       IN  /\ ~complete => ret.exc # None
           /\ (complete /\ ~NoDanglingSong(game_data)) => ret.exc # None

\* the entry e = <<s, a, f>> carries the score of (s, a) against the
\* target, and pruning the object g with it leaves the target a candidate
OracleEntry(g, e) ==
    /\ e[3] = Score(e[1], e[2], target_live.song_ids, target_live.artist_ids)
    /\ e[3] \in {0, 1, 2}
    /\ target_live_id \in g.possible_live_ids
          => target_live_id \in prune_candidates(g, e[1], e[2], e[3]).game.possible_live_ids

\* C26 as stated: every history entry (s, a, f) of a session, whether
\* appended by guess_song or by guess_song_only (fallback and placeholder
\* artist included), has f = the score of (s, a) against the target live,
\* with f in {0, 1, 2}; hence pruning with any history triple never removes
\* the target.
C26_HistoryEntriesAreOracleScores ==
    Started => \A i \in DOMAIN history : OracleEntry(Game, history[i])

\* C26, amended: every history entry (s, a, f) that guess_song appends, and
\* every entry that guess_song_only appends for a song outside the target or
\* with an artist of the target's roster, has f = the score of (s, a)
\* against the target live, with f in {0, 1, 2}; hence pruning with such a
\* triple never removes the target.  (On its fallback to the song's own
\* artists and on its placeholder artist guess_song_only records f = 2
\* whether or not that artist is in the roster.)
C26_GuessSongEntriesAreOracleScores ==
    Started =>
       /\ \A song_id \in SongArgs, artist_id \in ArtistArgs :
             LET o == guess_song(Game, song_id, artist_id)
             IN  o.game.history # history
                    => /\ Len(o.game.history) = Len(history) + 1
                       /\ o.game.history[Len(history) + 1][1] = song_id
                       /\ o.game.history[Len(history) + 1][2] = artist_id
                       /\ OracleEntry(o.game, o.game.history[Len(history) + 1])
       /\ \A song_id \in SongArgs :
             \A o \in guess_song_only(Game, song_id) :
                o.game.history # history
                   => LET e == o.game.history[Len(o.game.history)]
                      IN  (\/ e[1] \notin target_live.song_ids
                           \/ e[2] \in target_live.artist_ids)
                             => OracleEntry(o.game, e)

\* guess_song_only has fallen back on an artist outside the target's roster
\* and recorded 2 for it, next to an entry with the score proper
C26_Witness ==
    /\ Started
    /\ Len(history) = 2
    /\ history[1][3] = 2 /\ history[1][2] \notin target_live.artist_ids
    /\ history[2][3] = 1 /\ history[2][2] \notin target_live.artist_ids

\* the song is in some but not all of the candidates
Splits(song_id) ==
    /\ \E lid \in possible_live_ids : song_id \in lives[lid].song_ids
    /\ \E lid \in possible_live_ids : song_id \notin lives[lid].song_ids

\* C27: if the top song that get_best_moves returns has a strictly positive
\* entropy, then guessing it with any artist and pruning with the returned
\* feedback strictly decreases the number of candidates; and a song that
\* splits the current candidates is never already in guessed_song_ids when
\* every earlier guess was pruned.
C27_TopMoveShrinksCandidates ==
    Started =>
       /\ \A best_moves \in get_best_moves(Game, 1) :
             (best_moves # << >> /\ best_moves[1][2] > 0)
                => \A artist_id \in ArtistArgs :
                      LET sid == best_moves[1][1]
                          guessed == guess_song(Game, sid, artist_id)
                          pruned == prune_candidates(guessed.game, sid, artist_id,
                                                     guessed.val)
                      IN  Cardinality(pruned.game.possible_live_ids)
                             < Cardinality(possible_live_ids)
       /\ usage = "synced" => \A sid \in guessed_song_ids : ~Splits(sid)

\* no two lives of the catalogue have the same set of songs
DistinctSongSets ==
    \A lid, other \in live_ids : lid # other => lives[lid].song_ids # lives[other].song_ids

\* C28: for a catalogue of at most 20 lives whose song sets are pairwise
\* distinct, PureAlgoAgent.play(target) always ends with solved = True, for
\* every target, using at most as many turns as there are lives: the call
\* does not raise, it does not return unsolved, and it never begins more
\* turns than there are lives.
C28_PureAlgoSolvesWithinLiveCount ==
    (/\ play.agent = "PureAlgoAgent"
     /\ Cardinality(live_ids) <= 20
     /\ DistinctSongSets)
       => /\ play.pc # "raised"
          /\ play.pc = "returned" => play.solved
          /\ play.turns <= Cardinality(live_ids)

\* C29: in PureAlgoAgent.play, whenever possible_live_ids has exactly one
\* element at the start of a turn, that element is the target, so the
\* guess_live call succeeds and the branch that passes over a failed live
\* guess is never taken.
C29_SingleCandidateIsTheTarget ==
    play.agent = "PureAlgoAgent" =>
       /\ (play.pc = "loop" /\ Cardinality(possible_live_ids) = 1)
             => possible_live_ids = {target_live_id}
       /\ play.by = "certainty" => (play.solved /\ play.submitted = target_live_id)
       /\ ~play.ignored

\* the agent has pruned down to one candidate and guessed it right
C29_Witness ==
    /\ play.agent = "PureAlgoAgent"
    /\ play.pc = "returned"
    /\ play.by = "certainty"
    /\ play.solved
    /\ play.turns >= 2
    /\ possible_live_ids = {target_live_id}

\* the candidates of g after prune_candidates with the triple t
Pruned(g, t) == prune_candidates(g, t[1], t[2], t[3]).game

\* C30: prune_candidates is idempotent and order-independent: applying the
\* same (song, artist, feedback) triple twice gives the same candidate set
\* as applying it once, and applying two triples in either order gives the
\* same candidate set.
C30_PruneIdempotentAndCommutative ==
    \A t1, t2 \in SongArgs \X ArtistArgs \X FeedbackArgs :
       /\ Pruned(Pruned(Game, t1), t1).possible_live_ids
             = Pruned(Game, t1).possible_live_ids
       /\ Pruned(Pruned(Game, t1), t2).possible_live_ids
             = Pruned(Pruned(Game, t2), t1).possible_live_ids

\* the agent has pruned with two different triples, each of which removes
\* a live and the second one more than the first, and the other order leads
\* from the whole catalogue to the candidates it has now
C30_Witness ==
    /\ play.agent = "PureAlgoAgent"
    /\ Len(history) = 2
    /\ history[1] # history[2]
    /\ LET all == [Game EXCEPT !.possible_live_ids = live_ids]
       IN  /\ Pruned(Pruned(all, history[2]), history[1]).possible_live_ids
                = possible_live_ids
           /\ Pruned(all, history[1]).possible_live_ids # live_ids
           /\ Pruned(all, history[2]).possible_live_ids # live_ids
           /\ Pruned(all, history[1]).possible_live_ids
                # Pruned(all, history[2]).possible_live_ids

\* C31: prune_candidates called with a feedback value outside {0, 1, 2} (in
\* particular the invalid sentinel -1) removes no live: possible_live_ids
\* is unchanged and the returned count is its unchanged size.
C31_PruneIgnoresOtherFeedback ==
    \A song_id \in SongArgs, artist_id \in ArtistArgs, feedback \in {-1, 3} :
       prune_candidates(Game, song_id, artist_id, feedback)
          = Outcome(Game, None, Cardinality(possible_live_ids))

\* prune_candidates has been called for the last guess and has left the
\* whole catalogue, where each of the feedbacks 0, 1 and 2 would have removed
\* a live: the feedback given was the sentinel
C31_Witness ==
    /\ ret.op = "prune_candidates"
    /\ history # << >>
    /\ possible_live_ids = live_ids
    /\ \A feedback \in {0, 1, 2} :
          to_remove(Game, history[Len(history)][1], history[Len(history)][2], feedback) # {}

\* C32: the command-line song-only pruning (on a match: drop the lives that
\* lack the song or lack any revealed artist; on a miss: drop the lives that
\* contain the song) never removes the target live from possible_live_ids,
\* for every catalogue and every guessed song.
C32_SongOnlyPruningKeepsTarget ==
    [][ (/\ play.agent = "play_cli"
         /\ play.song_only_mode
         /\ ret'.op = "play_cli.S"
         /\ target_live_id \in possible_live_ids)
        => target_live_id \in possible_live_ids' ]_vars

\* the song ids that appear in the history h
SongsOf(h) == {h[i][1] : i \in DOMAIN h}

\* C33: in every state of a session, guessed_song_ids is the set of song
\* ids that appear in history; a valid song guessed twice through the
\* engine gives two history entries and one set element.
C33_GuessedSongsAreHistorySongs ==
    Started =>
       /\ guessed_song_ids = SongsOf(history)
       /\ \A song_id \in song_ids, first \in ArtistArgs, second \in ArtistArgs :
             LET twice == guess_song(guess_song(Game, song_id, first).game,
                                     song_id, second).game
             IN  /\ Len(twice.history) = Len(history) + 2
                 /\ twice.history[Len(history) + 1][1] = song_id
                 /\ twice.history[Len(history) + 2][1] = song_id
                 /\ twice.guessed_song_ids = guessed_song_ids \cup {song_id}
       /\ \A song_id \in song_ids :
             \A once \in guess_song_only(Game, song_id) :
                \A twice \in guess_song_only(once.game, song_id) :
                   /\ Len(twice.game.history) = Len(history) + 2
                   /\ twice.game.guessed_song_ids = guessed_song_ids \cup {song_id}

\* one song was guessed twice, once by each method
C33_Witness ==
    /\ Len(history) = 2
    /\ history[1][1] = history[2][1]
    /\ history[1] # history[2]
    /\ Cardinality(guessed_song_ids) = 1
    /\ ret.op = "guess_song_only"

\* the scores of a list of moves, in its order
ScoresOf(best_moves) == [i \in DOMAIN best_moves |-> best_moves[i][2]]

\* C34: calculate_entropy and get_best_moves are read-only: they leave the
\* target, possible_live_ids, guessed_song_ids, guessed_live_ids and history
\* unchanged (and the catalogue with them, so that a second call computes
\* from what the first computed from), and two calls in the same session
\* state return the same scores: whichever of its possible lists
\* get_best_moves returns, the scores in it are the same.
C34_QueriesAreReadOnly ==
    [][ ret'.op \in {"calculate_entropy", "get_best_moves"}
        => /\ session' = session
           /\ data' = data
           /\ ret'.op = "get_best_moves"
                 => \A top_k \in TopKArgs :
                       Cardinality({ScoresOf(best_moves) :
                                      best_moves \in get_best_moves(Game, top_k)}) = 1 ]_vars

\* get_best_moves was called in a session in which two songs tie for the
\* top, so that the list may begin with either
C34_Witness ==
    /\ Started
    /\ ret.op = "get_best_moves"
    /\ history # << >>
    /\ Cardinality(get_best_moves(Game, 1)) >= 2

\* C35: after every start_game call, including one given a target id that
\* is not in the catalogue, target_live_id is one of the catalogue's live
\* ids and target_live is that live's record; an unknown target id is
\* replaced by a randomly chosen live (any of them) and no error is raised.
C35_StartGameTargetIsALive ==
    /\ Started => /\ target_live_id \in live_ids
                  /\ target_live = lives[target_live_id]
    /\ \A target_id \in {"L1", "L9", None} :
          /\ \A o \in start_game(Game, target_id) :
                /\ o.exc = None
                /\ o.val = o.game.target_live_id
                /\ o.game.target_live_id \in live_ids
                /\ o.game.target_live = lives[o.game.target_live_id]
          /\ {o.game.target_live_id : o \in start_game(Game, target_id)}
                = IF target_id \in live_ids THEN {target_id} ELSE live_ids

\* start_game has chosen a live that no caller can have named
C35_Witness ==
    /\ ret.op = "start_game"
    /\ ret.val = target_live_id
    /\ target_live_id \in live_ids \ {"L1"}
    /\ target_live = lives[target_live_id]

\* C36: PureAlgoAgent.play and HybridAIAgent.play always terminate after at
\* most 20 turns, return a turn count between 1 and 20, and return
\* solved = True only when their last action was a guess_live call on the
\* target live: the call does not raise, it never begins a 21st turn, the
\* loop goes on only while fewer than 20 turns were begun, and what it
\* returns is a count in 1..20 with solved set only by the successful live
\* guess that ended the last turn.
C36_AgentsReturnWithinTwentyTurns ==
    play.agent \in {"PureAlgoAgent", "HybridAIAgent"} =>
       /\ play.pc # "raised"
       /\ play.turns <= max_turns
       /\ play.pc = "loop" => play.turns < max_turns
       /\ play.solved => play.pc = "returned"
       /\ play.pc = "returned"
             => /\ 1 <= play.turns
                /\ ret.op = "play"
                /\ ret.val = <<play.solved, play.turns>>
                /\ play.solved => /\ play.by # None
                                  /\ play.submitted = target_live_id
                                  /\ target_live_id \in guessed_live_ids

====
